---- MODULE Spec2Model ----
(***************************************************************************)
(* The property registry of nuki-rs (src/property_sheet.rs): the ordered   *)
(* PropertySheet with its structural operations and its keyboard           *)
(* navigation, and the single property with its typed value operations.    *)
(*                                                                         *)
(* Positions are 0-based as in the source; the TLA+ sequence `items` holds *)
(* the item of position k at index k + 1.                                  *)
(***************************************************************************)
EXTENDS Integers, Sequences, FiniteSets, TLC

VARIABLES
    items,            \* PropertySheet.items: the sequence of properties
    last,             \* the last sheet operation, its arguments and its local `sels`
    ret,              \* what the last sheet operation returned (remove: the item)
    panicked,         \* the program has aborted with a panic
    overflow_checks,  \* build profile: integer overflow panics (debug) or wraps (release)
    prop,             \* the single property of the property specification
    plast,            \* the last property operation and its argument
    pret,             \* what the last property operation returned
    borrow,           \* the borrow flag of the RefCell around the action callback
    action_checked,   \* PropertyAction.checked of each action property
    stacks,           \* the trigger calls in flight, a call stack for each thread
    dead              \* the threads that have panicked

vars == <<items, last, ret, panicked, overflow_checks, prop, plast, pret,
          borrow, action_checked, stacks, dead>>

\* the state of the action properties, their callback and the threads
actionVars == <<borrow, action_checked, stacks, dead>>

---------------------------------------------------------------------------
(* Bounds of the model.                                                    *)

\* the longest sheet that is built
MaxLen == 4
\* usize is modelled as an unsigned integer of UsizeBits bits
UsizeBits == 3

\* i32 / i64 are modelled as signed integers of IntBits bits
IntBits == 4
\* the longest options list a choice property is built with
MaxOptions == 3

\* the longest sheet of named properties that is built
MaxNamed == 2
\* the longest text a string property is edited to
MaxText == 3
\* the longest chain of toggle() calls that is counted
MaxToggles == 3
\* the most trigger calls in flight at a time, over all threads
MaxCalls == 2
\* the longest sheet the input controller is run on
MaxInput == 2
\* the longest sheet of whole properties that is restructured
MaxFrame == 3
\* the value-mutating calls the threads issue on the shared sheet, in all
MaxIssued == 2

UsizeMod == 2 ^ UsizeBits
UsizeMax == UsizeMod - 1

---------------------------------------------------------------------------
(* usize arithmetic: `+` and `-` overflow; the build decides the outcome.  *)

UsizeOverflows(x) == x < 0 \/ x > UsizeMax
UsizeWrap(x) == x % UsizeMod

---------------------------------------------------------------------------
(* PropertyBase and the items of the sheet.                                *)

Separator == "Separator"

\* the widget types of the builders the sheet model exercises: action_button
\* and separator.  The sheet reads no more of an item than is_selectable(), and
\* every other builder yields a selectable item as action_button does.
SheetWidgets == {"Button", Separator}

\* PropertyBase::new: id 0, not selected
NewItem(wt) == [id |-> 0, widget_type |-> wt, selected |-> FALSE]

\* Property::is_selectable
IsSelectable(p) == p.widget_type /= Separator

\* Property::set_id
SetId(p, id) == [p EXCEPT !.id = id]

\* Property::set_selected
SetSelected(p, b) == [p EXCEPT !.selected = b]

\* the item at 0-based position k
At(s, k) == s[k + 1]

\* PropertySheet::get: Option as a sequence of at most one item
Get(s, index) == IF index >= 0 /\ index < Len(s) THEN <<s[index + 1]>> ELSE <<>>

---------------------------------------------------------------------------
(* Structural operations.  Each yields the sheet it leaves behind and      *)
(* whether it panicked.                                                    *)

Outcome(s, p) == [items |-> s, panicked |-> p]

\* PropertySheet::append and every builder: set_id(len), push
SheetAppend(s, item) == Append(s, SetId(item, Len(s)))

\* Mutation of ShiftIds: the loop clears the selected flag of what it renumbers.
ShiftIdsDeselecting(s, index, delta, checks) ==
    [items |-> [k \in 1..Len(s) |->
                  IF k >= index + 1
                  THEN [s[k] EXCEPT !.id = (s[k].id + delta) % UsizeMod,
                                    !.selected = FALSE]
                  ELSE s[k]],
     panicked |-> FALSE]

\* the loop `for p in &self.items[index..] { p.set_id(p.id() + delta) }`:
\* it runs in storage order and stops at the first overflow when the build
\* checks overflow, leaving the ids it has already written
ShiftIds(s, index, delta, checks) ==
    LET bad == {k \in (index + 1)..Len(s) : UsizeOverflows(s[k].id + delta)}
        stop == IF bad = {} THEN Len(s) + 1
                ELSE CHOOSE k \in bad : \A j \in bad : k <= j
    IN  IF checks /\ bad /= {}
        THEN Outcome([k \in 1..Len(s) |->
                        IF k >= index + 1 /\ k < stop
                        THEN SetId(s[k], s[k].id + delta) ELSE s[k]], TRUE)
        ELSE Outcome([k \in 1..Len(s) |->
                        IF k >= index + 1
                        THEN SetId(s[k], UsizeWrap(s[k].id + delta)) ELSE s[k]], FALSE)

\* Vec::insert
VecInsert(s, index, item) ==
    SubSeq(s, 1, index) \o <<item>> \o SubSeq(s, index + 1, Len(s))

\* Vec::remove
VecRemove(s, index) == SubSeq(s, 1, index) \o SubSeq(s, index + 2, Len(s))

\* Mutation of SheetInsert: the renumbering loop is left out.
SheetInsertNoRenumber(s, index, item, checks) ==
    IF index > Len(s)
    THEN Outcome(s, TRUE)
    ELSE Outcome(VecInsert(s, index, SetId(item, index)), FALSE)

\* PropertySheet::insert
SheetInsert(s, index, item, checks) ==
    IF index > Len(s)
    THEN Outcome(s, TRUE)                 \* &self.items[index..] is out of range
    ELSE LET sh == ShiftIds(s, index, 1, checks)
         IN  IF sh.panicked THEN sh
             ELSE Outcome(VecInsert(sh.items, index, SetId(item, index)), FALSE)

\* Mutation of SheetRemove: the ids are shifted before the index is checked.
SheetRemoveShiftsFirst(s, index, checks) ==
    IF index >= Len(s)
    THEN [items |-> [k \in 1..Len(s) |-> [s[k] EXCEPT !.id = (s[k].id + 1) % UsizeMod]],
          panicked |-> TRUE]
    ELSE [items |-> [k \in 1..(Len(s) - 1) |->
                        IF k <= index THEN s[k]
                        ELSE [s[k + 1] EXCEPT !.id = s[k + 1].id - 1]],
          panicked |-> FALSE]

\* PropertySheet::remove
SheetRemove(s, index, checks) ==
    IF index > Len(s)
    THEN Outcome(s, TRUE)                 \* &self.items[index..] is out of range
    ELSE LET sh == ShiftIds(s, index, -1, checks)
         IN  IF sh.panicked THEN sh
             ELSE IF index >= Len(s) THEN Outcome(sh.items, TRUE)   \* Vec::remove
             ELSE Outcome(VecRemove(sh.items, index), FALSE)

\* Mutation of SheetRemoved: the item is returned with the id it had.
SheetRemovedAsFound(s, index, checks) ==
    IF index >= Len(s) THEN <<>> ELSE <<s[index + 1]>>

\* the item PropertySheet::remove returns (none when it panics)
SheetRemoved(s, index, checks) ==
    IF index >= Len(s) THEN <<>>
    ELSE LET sh == ShiftIds(s, index, -1, checks)
         IN  IF sh.panicked THEN <<>> ELSE <<sh.items[index + 1]>>

---------------------------------------------------------------------------
(* Selection and navigation.                                               *)

\* Mutation of SelectItemsOf: listed items are selected, no item is deselected.
SelectItemsKeeping(s, ids) ==
    [k \in 1..Len(s) |-> SetSelected(s[k], s[k].selected \/ s[k].id \in ids)]

\* PropertySheet::select_items
SelectItemsOf(s, ids) == [k \in 1..Len(s) |-> SetSelected(s[k], s[k].id \in ids)]

\* PropertySheet::selected_items: the ids of the selected items, storage order
SelectedItems(s) ==
    LET f == SelectSeq(s, LAMBDA p : p.selected)
    IN  [k \in 1..Len(f) |-> f[k].id]

\* Mutation of SelectLast: `len` is used where `len - 1` is meant.
SelectLastOffByOne(s, checks) ==
    [items |-> [k \in 1..Len(s) |-> [s[k] EXCEPT !.selected = s[k].id \in {Len(s)}]],
     panicked |-> FALSE]

\* `self.select_items(&[self.len() - 1])`: len - 1 overflows on the empty sheet
SelectLast(s, checks) ==
    IF Len(s) = 0
    THEN IF checks THEN Outcome(s, TRUE)
         ELSE Outcome(SelectItemsOf(s, {UsizeWrap(Len(s) - 1)}), FALSE)
    ELSE Outcome(SelectItemsOf(s, {Len(s) - 1}), FALSE)

\* the common body of select_prev / select_prev_wrapped once 0 < i:
\* `if let Some(p) = self.get(i - 1)` with its one-step look-behind
PrevFrom(s, i) ==
    LET p == Get(s, i - 1)
    IN  IF p = <<>> THEN s
        ELSE IF ~IsSelectable(p[1]) /\ i > 2
             THEN SelectItemsOf(s, {i - 2})
             ELSE SelectItemsOf(s, {i - 1})

\* Mutation of NextFrom: the look-ahead is left out.
NextFromNoSkip(s, i) ==
    [k \in 1..Len(s) |-> [s[k] EXCEPT !.selected = s[k].id \in {i + 1}]]

\* the common body of select_next / select_next_wrapped once i < len - 1:
\* `if let Some(p) = self.get(i + 1)` with its one-step look-ahead
NextFrom(s, i) ==
    LET p == Get(s, i + 1)
    IN  IF p = <<>> THEN s
        ELSE IF ~IsSelectable(p[1]) /\ i < Len(s) - 2
             THEN SelectItemsOf(s, {i + 2})
             ELSE SelectItemsOf(s, {i + 1})

\* PropertySheet::select_prev
SheetSelectPrev(s, checks) ==
    LET sels == SelectedItems(s)
    IN  IF sels /= <<>>
        THEN IF sels[1] > 0 /\ sels[1] < Len(s)
             THEN Outcome(PrevFrom(s, sels[1]), FALSE)
             ELSE Outcome(s, FALSE)
        ELSE SelectLast(s, checks)

\* Mutation of SheetSelectPrevWrapped: at the first item nothing is changed.
SheetSelectPrevWrappedStays(s, checks) ==
    IF SelectSeq(s, LAMBDA p : p.selected) = <<>>
    THEN [items |-> [k \in 1..Len(s) |-> [s[k] EXCEPT !.selected = s[k].id = Len(s) - 1]],
          panicked |-> Len(s) = 0 /\ checks]
    ELSE LET i == SelectSeq(s, LAMBDA p : p.selected)[1].id
             t == IF s[i].widget_type = "Separator" /\ i > 2 THEN i - 2 ELSE i - 1
         IN  IF i = 0 THEN [items |-> s, panicked |-> FALSE]
             ELSE [items |-> [k \in 1..Len(s) |-> [s[k] EXCEPT !.selected = s[k].id = t]],
                   panicked |-> FALSE]

\* PropertySheet::select_prev_wrapped
SheetSelectPrevWrapped(s, checks) ==
    LET sels == SelectedItems(s)
    IN  IF sels /= <<>>
        THEN IF sels[1] > 0
             THEN Outcome(PrevFrom(s, sels[1]), FALSE)
             ELSE SelectLast(s, checks)
        ELSE SelectLast(s, checks)

\* Mutation of SheetSelectNext: at the last item it wraps to the first.
SheetSelectNextWraps(s, checks) ==
    LET sels == SelectedItems(s)
    IN  IF sels /= <<>> /\ sels[1] < Len(s) - 1
        THEN Outcome(NextFrom(s, sels[1]), FALSE)
        ELSE Outcome(SelectItemsOf(s, {0}), FALSE)

\* PropertySheet::select_next
SheetSelectNext(s, checks) ==
    LET sels == SelectedItems(s)
    IN  IF sels /= <<>>
        THEN IF sels[1] < Len(s) - 1
             THEN Outcome(NextFrom(s, sels[1]), FALSE)
             ELSE Outcome(s, FALSE)
        ELSE Outcome(SelectItemsOf(s, {0}), FALSE)

\* Mutation of SheetSelectNextWrapped: the last selected id is the pivot.
SheetSelectNextWrappedLastPivot(s, checks) ==
    IF SelectSeq(s, LAMBDA p : p.selected) = <<>>
    THEN [items |-> [k \in 1..Len(s) |-> [s[k] EXCEPT !.selected = s[k].id = 0]],
          panicked |-> FALSE]
    ELSE LET f == SelectSeq(s, LAMBDA p : p.selected)
             i == f[Len(f)].id
             t == IF i >= Len(s) - 1 THEN 0
                  ELSE IF s[i + 2].widget_type = "Separator" /\ i < Len(s) - 2
                       THEN i + 2 ELSE i + 1
         IN  [items |-> [k \in 1..Len(s) |-> [s[k] EXCEPT !.selected = s[k].id = t]],
              panicked |-> FALSE]

\* Mutation of SheetSelectNextWrapped: at the last item nothing is changed.
SheetSelectNextWrappedStops(s, checks) ==
    LET sels == SelectedItems(s)
    IN  IF sels = <<>> THEN Outcome(SelectItemsOf(s, {0}), FALSE)
        ELSE IF sels[1] < Len(s) - 1 THEN Outcome(NextFrom(s, sels[1]), FALSE)
        ELSE Outcome(s, FALSE)

\* PropertySheet::select_next_wrapped
SheetSelectNextWrapped(s, checks) ==
    LET sels == SelectedItems(s)
    IN  IF sels /= <<>>
        THEN IF sels[1] < Len(s) - 1
             THEN Outcome(NextFrom(s, sels[1]), FALSE)
             ELSE Outcome(SelectItemsOf(s, {0}), FALSE)
        ELSE Outcome(SelectItemsOf(s, {0}), FALSE)

\* PropertySheet::current_selected
SheetCurrentSelected(s) ==
    LET sels == SelectedItems(s)
    IN  IF sels = <<>> THEN <<>> ELSE Get(s, sels[1])

---------------------------------------------------------------------------
(* The single property: the concrete kinds, their constructors, the        *)
(* capability downcasts and the numeric capability (PropertyNumber<T>).    *)
(* A float value is modelled by an integer and float arithmetic is exact:  *)
(* f32 / f64 `+` and `-` never panic and never wrap.  NaN, the infinities  *)
(* and rounding are not modelled.                                          *)

IntMod == 2 ^ IntBits
IntMin == 0 - (2 ^ (IntBits - 1))
IntMax == (2 ^ (IntBits - 1)) - 1

IntOverflows(x) == x < IntMin \/ x > IntMax
IntWrap(x) == ((x - IntMin) % IntMod) + IntMin

\* Ord::min / f32::min and Ord::max / f32::max
Min(a, b) == IF a <= b THEN a ELSE b
Max(a, b) == IF a >= b THEN a ELSE b

ValueTypes == {"Action", "Bool", "Dummy", "F32", "F64", "I32", "I64", "String"}

\* a property: its PropertyBase fields and the fields of its concrete struct
\* (a field the struct does not have keeps the neutral value given here)
Blank(struct, vt, wt, nopts) ==
    [struct |-> struct, value_type |-> vt, widget_type |-> wt, options |-> nopts,
     id |-> 0, selected |-> FALSE, visible |-> TRUE,
     range |-> <<0, 0>>, step |-> 0, def_val |-> 0, value |-> 0,
     checked |-> FALSE, bool_def |-> FALSE, bool_value |-> FALSE,
     max_length |-> 0, text_def |-> <<>>, text |-> <<>>]

\* PropertyAction::with_button
ActionWithButton ==
    Blank("PropertyAction", "Action", "Button", 1)

\* PropertyAction::with_check_box
ActionWithCheckBox(checked) ==
    [Blank("PropertyAction", "Action", "CheckBox", 0) EXCEPT !.checked = checked]

\* PropertyBool::with_switch
BoolWithSwitch(def) ==
    [Blank("PropertyBool", "Bool", "Switch", 0)
        EXCEPT !.bool_def = def, !.bool_value = def]

\* PropertyDummy::with_separator
DummyWithSeparator == Blank("PropertyDummy", "Dummy", Separator, 0)

\* PropertyString::with_text_box
StringWithTextBox(max_length, def) ==
    [Blank("PropertyString", "String", "TextBox", 0)
        EXCEPT !.max_length = max_length, !.text_def = def, !.text = def]

\* the struct literal shared by the numeric constructors: def_val is stored
\* as the value as it is given
Numeric(struct, vt, wt, nopts, range, step, def) ==
    [Blank(struct, vt, wt, nopts)
        EXCEPT !.range = range, !.step = step, !.def_val = def, !.value = def]

\* PropertyF32::with_slider / with_spin_box
F32WithSlider(range, step, def) ==
    Numeric("PropertyF32", "F32", "Slider", 0, range, step, def)
F32WithSpinBox(range, step, def) ==
    Numeric("PropertyF32", "F32", "SpinBox", 0, range, step, def)

\* PropertyF64::with_slider / with_spin_box
F64WithSlider(range, step, def) ==
    Numeric("PropertyF64", "F64", "Slider", 0, range, step, def)
F64WithSpinBox(range, step, def) ==
    Numeric("PropertyF64", "F64", "SpinBox", 0, range, step, def)

\* Mutation of I32WithSelect: the range ends at options.len().
I32WithSelectLen(nopts, def) ==
    [struct |-> "PropertyI32", value_type |-> "I32", widget_type |-> "Select",
     options |-> nopts, id |-> 0, selected |-> FALSE, visible |-> TRUE,
     range |-> <<0, nopts>>, step |-> 1, def_val |-> def, value |-> def,
     checked |-> FALSE, bool_def |-> FALSE, bool_value |-> FALSE,
     max_length |-> 0, text_def |-> <<>>, text |-> <<>>]

\* PropertyI32::with_combo_box / with_select / with_slider / with_spin_box
\* (the choice constructors are reached with a non-empty options list only)
I32WithComboBox(nopts, def) ==
    Numeric("PropertyI32", "I32", "ComboBox", nopts, <<0, nopts - 1>>, 1, def)
I32WithSelect(nopts, def) ==
    Numeric("PropertyI32", "I32", "Select", nopts, <<0, nopts - 1>>, 1, def)
I32WithSlider(range, step, def) ==
    Numeric("PropertyI32", "I32", "Slider", 0, range, step, def)
I32WithSpinBox(range, step, def) ==
    Numeric("PropertyI32", "I32", "SpinBox", 0, range, step, def)

\* PropertyI64::with_combo_box / with_select / with_slider / with_spin_box;
\* with_select builds its base with PropertyBase::with_select_i32
I64WithComboBox(nopts, def) ==
    Numeric("PropertyI64", "I64", "ComboBox", nopts, <<0, nopts - 1>>, 1, def)
I64WithSelect(nopts, def) ==
    Numeric("PropertyI64", "I32", "Select", nopts, <<0, nopts - 1>>, 1, def)
I64WithSlider(range, step, def) ==
    Numeric("PropertyI64", "I64", "Slider", 0, range, step, def)
I64WithSpinBox(range, step, def) ==
    Numeric("PropertyI64", "I64", "SpinBox", 0, range, step, def)

\* Property::as_property_*: the trait's default is None, and each concrete
\* struct overrides the one downcast of its own kind with Some(self)
AsPropertyAction(p) == p.struct = "PropertyAction"
AsPropertyBool(p) == p.struct = "PropertyBool"
AsPropertyDummy(p) == p.struct = "PropertyDummy"
AsPropertyF32(p) == p.struct = "PropertyF32"
AsPropertyF64(p) == p.struct = "PropertyF64"
AsPropertyI32(p) == p.struct = "PropertyI32"
AsPropertyI64(p) == p.struct = "PropertyI64"
AsPropertyString(p) == p.struct = "PropertyString"

\* the value types whose downcast returns Some
Downcasts(p) ==
    {t \in ValueTypes :
        \/ t = "Action" /\ AsPropertyAction(p)
        \/ t = "Bool" /\ AsPropertyBool(p)
        \/ t = "Dummy" /\ AsPropertyDummy(p)
        \/ t = "F32" /\ AsPropertyF32(p)
        \/ t = "F64" /\ AsPropertyF64(p)
        \/ t = "I32" /\ AsPropertyI32(p)
        \/ t = "I64" /\ AsPropertyI64(p)
        \/ t = "String" /\ AsPropertyString(p)}

IsNumeric(p) == p.struct \in {"PropertyF32", "PropertyF64", "PropertyI32", "PropertyI64"}
IsInteger(p) == p.struct \in {"PropertyI32", "PropertyI64"}

\* what a property operation leaves behind: the property, the value it
\* returned (none when it panicked) and whether it panicked
PropOutcome(p, r, pan) == [prop |-> p, ret |-> r, panicked |-> pan]

\* Mutation of Clamp: the lower bound is not applied.
ClampUpperOnly(v, range) == Min(v, range[2])

\* `v.min(self.range.1).max(self.range.0)`
Clamp(v, range) == Max(Min(v, range[2]), range[1])

\* PropertyNumber::set_value
NumSetValue(p, v) ==
    LET clamped == Clamp(v, p.range)
    IN  PropOutcome([p EXCEPT !.value = clamped], <<clamped>>, FALSE)

\* Mutation of NumStep: the sum is stored without clamping.
NumStepUnclamped(p, sign, checks) ==
    [prop |-> [p EXCEPT !.value = p.value + sign * p.step],
     ret |-> <<p.value + sign * p.step>>, panicked |-> FALSE]

\* PropertyNumber::step_forward (sign = 1) / step_backward (sign = -1):
\* `(self.value() + self.step)` resp. `(self.value() - self.step)`, clamped,
\* written and returned; on i32 / i64 the sum may overflow
NumStep(p, sign, checks) ==
    LET sum == p.value + sign * p.step
    IN  IF IsInteger(p) /\ IntOverflows(sum)
        THEN IF checks THEN PropOutcome(p, <<>>, TRUE)
             ELSE LET clamped == Clamp(IntWrap(sum), p.range)
                  IN  PropOutcome([p EXCEPT !.value = clamped], <<clamped>>, FALSE)
        ELSE LET clamped == Clamp(sum, p.range)
             IN  PropOutcome([p EXCEPT !.value = clamped], <<clamped>>, FALSE)

\* a write of v through the reference PropertyNumber::value_mut returns
\* (or through the pointer of value_mut_ptr)
NumValueMutWrite(p, v) == PropOutcome([p EXCEPT !.value = v], <<>>, FALSE)

---------------------------------------------------------------------------
(* The Action, Bool and String capabilities and the typed accessors of the *)
(* Property trait.  Option is a sequence of at most one value.  The action *)
(* callback is any FnMut(&dyn Property, bool) -> bool: the value r it      *)
(* returns is an input of the trigger.  An edit through                    *)
(* PropertyString::value_mut is one step: the RefMut guard is taken, the   *)
(* buffer is edited and the guard is dropped, as in                        *)
(* `p.value_mut().push(c)`; a guard kept across another access of the same *)
(* buffer is not modelled.                                                 *)

\* PropertyAction::trigger, the callback returning r
ActionTrigger(p, requested, r) ==
    PropOutcome([p EXCEPT !.checked = r], <<r>>, FALSE)

\* PropertyBool::set_value
BoolSetValue(p, v) == PropOutcome([p EXCEPT !.bool_value = v], <<v>>, FALSE)

\* Mutation of BoolToggle: the value is written back as it is.
BoolToggleKeeps(p) == [prop |-> p, ret |-> <<p.bool_value>>, panicked |-> FALSE]

\* PropertyBool::toggle
BoolToggle(p) == BoolSetValue(p, ~p.bool_value)

\* Mutation of StringSetValue: the buffer is not cleared before the append.
StringSetValueAppends(p, s) ==
    [prop |-> [p EXCEPT !.text = p.text \o s], ret |-> <<p.text \o s>>,
     panicked |-> FALSE]

\* PropertyString::set_value: clear, push_str, and the new content returned
StringSetValue(p, s) == PropOutcome([p EXCEPT !.text = s], <<s>>, FALSE)

\* `p.value_mut().push(c)`
StringPush(p, c) == PropOutcome([p EXCEPT !.text = Append(p.text, c)], <<>>, FALSE)

\* Mutation of GetValueString: the default text is returned.
GetValueStringDefault(p) == IF p.struct = "PropertyString" THEN <<p.text_def>> ELSE <<>>

\* Property::is_action_checked / get_value_*
IsActionChecked(p) == IF AsPropertyAction(p) THEN <<p.checked>> ELSE <<>>
GetValueBool(p) == IF AsPropertyBool(p) THEN <<p.bool_value>> ELSE <<>>
GetValueF32(p) == IF AsPropertyF32(p) THEN <<p.value>> ELSE <<>>
GetValueF64(p) == IF AsPropertyF64(p) THEN <<p.value>> ELSE <<>>
GetValueI32(p) == IF AsPropertyI32(p) THEN <<p.value>> ELSE <<>>
GetValueI64(p) == IF AsPropertyI64(p) THEN <<p.value>> ELSE <<>>
GetValueString(p) == IF AsPropertyString(p) THEN <<p.text>> ELSE <<>>

\* the read accessor of the value type T
TypedGet(T, p) ==
    CASE T = "Action" -> IsActionChecked(p)
      [] T = "Bool" -> GetValueBool(p)
      [] T = "F32" -> GetValueF32(p)
      [] T = "F64" -> GetValueF64(p)
      [] T = "I32" -> GetValueI32(p)
      [] T = "I64" -> GetValueI64(p)
      [] T = "String" -> GetValueString(p)

\* Property::trigger_action
TriggerAction(p, requested, r) ==
    IF AsPropertyAction(p) THEN ActionTrigger(p, requested, r)
    ELSE PropOutcome(p, <<>>, FALSE)

\* Property::set_value_*
SetValueBool(p, v) ==
    IF AsPropertyBool(p) THEN BoolSetValue(p, v) ELSE PropOutcome(p, <<>>, FALSE)
SetValueF32(p, v) ==
    IF AsPropertyF32(p) THEN NumSetValue(p, v) ELSE PropOutcome(p, <<>>, FALSE)
SetValueF64(p, v) ==
    IF AsPropertyF64(p) THEN NumSetValue(p, v) ELSE PropOutcome(p, <<>>, FALSE)
SetValueI32(p, v) ==
    IF AsPropertyI32(p) THEN NumSetValue(p, v) ELSE PropOutcome(p, <<>>, FALSE)
SetValueI64(p, v) ==
    IF AsPropertyI64(p) THEN NumSetValue(p, v) ELSE PropOutcome(p, <<>>, FALSE)
SetValueString(p, s) ==
    IF AsPropertyString(p) THEN StringSetValue(p, s) ELSE PropOutcome(p, <<>>, FALSE)

\* the write accessor of the value type T
TypedSet(T, p, v) ==
    CASE T = "Bool" -> SetValueBool(p, v)
      [] T = "F32" -> SetValueF32(p, v)
      [] T = "F64" -> SetValueF64(p, v)
      [] T = "I32" -> SetValueI32(p, v)
      [] T = "I64" -> SetValueI64(p, v)
      [] T = "String" -> SetValueString(p, v)

---------------------------------------------------------------------------
(* Lookup by name and the typed accessors of the sheet.  Here an item of   *)
(* the sheet is a whole property together with its name.                   *)

\* a property with the name its constructor was given
Named(p, name) ==
    [name |-> name, struct |-> p.struct, value_type |-> p.value_type,
     widget_type |-> p.widget_type, options |-> p.options, id |-> p.id,
     selected |-> p.selected, visible |-> p.visible, range |-> p.range,
     step |-> p.step, def_val |-> p.def_val, value |-> p.value,
     checked |-> p.checked, bool_def |-> p.bool_def, bool_value |-> p.bool_value,
     max_length |-> p.max_length, text_def |-> p.text_def, text |-> p.text]

\* Mutation of SheetFind: the last item of that name is returned.
SheetFindLast(s, name) ==
    IF {k \in 1..Len(s) : s[k].name = name} = {} THEN <<>>
    ELSE <<s[CHOOSE k \in 1..Len(s) :
                /\ s[k].name = name
                /\ \A j \in 1..Len(s) : s[j].name = name => j <= k]>>

\* PropertySheet::find / find_mut: the loop returns at the first item whose
\* name is `name`
RECURSIVE FindFrom(_, _, _)
FindFrom(s, name, k) ==
    IF k > Len(s) THEN <<>>
    ELSE IF s[k].name = name THEN <<s[k]>>
    ELSE FindFrom(s, name, k + 1)

SheetFind(s, name) == FindFrom(s, name, 1)

\* PropertySheet::get_value_*_at
SheetGetValueAt(s, T, index) ==
    LET p == Get(s, index)
    IN  IF p /= <<>> THEN TypedGet(T, p[1]) ELSE <<>>

\* PropertySheet::get_value_*_of
SheetGetValueOf(s, T, name) ==
    LET p == SheetFind(s, name)
    IN  IF p /= <<>> THEN TypedGet(T, p[1]) ELSE <<>>

---------------------------------------------------------------------------
(* The sheet specification: one action per operation of PropertySheet.     *)

\* the two threads of the test: the one that owns the sheet and the one it
\* spawns, each holding shared access to the sheet
Threads == {"main", "spawned"}

\* the action properties of the test, built over one callback handle
\* (`Arc::clone(&triggerd)`)
ActionProps == {"Foo", "Bar"}

\* no trigger is in flight: the callback is not borrowed, the buttons are
\* unchecked
ActionsIdle ==
    /\ borrow = 0
    /\ action_checked = [p \in ActionProps |-> FALSE]
    /\ stacks = [t \in Threads |-> <<>>]
    /\ dead = {}

\* no property has been constructed
NoProp == Blank("none", "Unknown", "Unknown", 0)
PNoOp == [op |-> "none", arg |-> 0, before |-> 0]
NoOp == [op |-> "new", index |-> 0, ids |-> {}, sels |-> <<>>]
Did(op, index, ids, sels) == [op |-> op, index |-> index, ids |-> ids, sels |-> sels]

\* PropertySheet::new, in either build profile
Init ==
    /\ items = <<>>
    /\ last = NoOp
    /\ ret = <<>>
    /\ panicked = FALSE
    /\ overflow_checks \in BOOLEAN
    /\ prop = NoProp
    /\ plast = PNoOp
    /\ pret = <<>>
    /\ ActionsIdle

\* the common effect of a sheet operation with outcome o
Finish(o, l, r) ==
    /\ items' = o.items
    /\ panicked' = o.panicked
    /\ last' = l
    /\ ret' = r
    /\ UNCHANGED <<overflow_checks, prop, plast, pret>>
    /\ UNCHANGED actionVars

\* action_button, separator, slider_f32, ...: the builders
Builder ==
    \E wt \in SheetWidgets :
        /\ ~panicked /\ Len(items) < MaxLen
        /\ Finish(Outcome(SheetAppend(items, NewItem(wt)), FALSE),
                  Did("builder", Len(items), {}, <<>>), <<>>)

\* append(item): the item may have been selected before it is appended
AppendItem ==
    \E wt \in SheetWidgets, sel \in BOOLEAN :
        /\ ~panicked /\ Len(items) < MaxLen
        /\ Finish(Outcome(SheetAppend(items, SetSelected(NewItem(wt), sel)), FALSE),
                  Did("append", Len(items), {}, <<>>), <<>>)

\* insert(index, item), index = len + 1 being the violated precondition
InsertItem ==
    \E index \in 0..(Len(items) + 1), wt \in SheetWidgets, sel \in BOOLEAN :
        /\ ~panicked /\ Len(items) < MaxLen
        /\ Finish(SheetInsert(items, index, SetSelected(NewItem(wt), sel), overflow_checks),
                  Did("insert", index, {}, <<>>), <<>>)

\* remove(index), index >= len being the violated precondition
RemoveItem ==
    \E index \in 0..(Len(items) + 1) :
        /\ ~panicked
        /\ Finish(SheetRemove(items, index, overflow_checks),
                  Did("remove", index, {}, <<>>),
                  SheetRemoved(items, index, overflow_checks))

\* select_items(ids)
SelectItems ==
    \E ids \in SUBSET (0..MaxLen) :
        /\ ~panicked
        /\ Finish(Outcome(SelectItemsOf(items, ids), FALSE),
                  Did("select_items", 0, ids, <<>>), <<>>)

SelectPrev ==
    /\ ~panicked
    /\ Finish(SheetSelectPrev(items, overflow_checks),
              Did("select_prev", 0, {}, SelectedItems(items)), <<>>)

SelectPrevWrapped ==
    /\ ~panicked
    /\ Finish(SheetSelectPrevWrapped(items, overflow_checks),
              Did("select_prev_wrapped", 0, {}, SelectedItems(items)), <<>>)

SelectNext ==
    /\ ~panicked
    /\ Finish(SheetSelectNext(items, overflow_checks),
              Did("select_next", 0, {}, SelectedItems(items)), <<>>)

SelectNextWrapped ==
    /\ ~panicked
    /\ Finish(SheetSelectNextWrapped(items, overflow_checks),
              Did("select_next_wrapped", 0, {}, SelectedItems(items)), <<>>)

\* current_selected(): a read of the sheet
CurrentSelected ==
    /\ ~panicked
    /\ Finish(Outcome(items, FALSE),
              Did("current_selected", 0, {}, SelectedItems(items)),
              SheetCurrentSelected(items))

Next ==
    \/ Builder
    \/ AppendItem
    \/ InsertItem
    \/ RemoveItem
    \/ SelectItems
    \/ SelectPrev
    \/ SelectPrevWrapped
    \/ SelectNext
    \/ SelectNextWrapped
    \/ CurrentSelected

Spec == Init /\ [][Next]_vars

---------------------------------------------------------------------------
(* The property specification: one property, built by any public           *)
(* constructor, and one action per operation on it.                        *)

\* the arguments the constructors and the operations are called with
RangeLows == {IntMin, 0, 2}
RangeHighs == {0, 2, IntMax}
Ranges == {<<lo, hi>> : lo \in RangeLows, hi \in RangeHighs}
Steps == {-1, 0, 1, IntMax}
DefVals == {IntMin, 0, IntMax}
Args == {IntMin, -1, 1, 5, IntMax}
OptionCounts == 1..MaxOptions
MaxLengths == {1, 128}
Texts == {<<>>, <<"O", "k">>}

\* every property a public constructor yields
Constructed ==
    {ActionWithButton, DummyWithSeparator}
    \cup {ActionWithCheckBox(c) : c \in BOOLEAN}
    \cup {BoolWithSwitch(d) : d \in BOOLEAN}
    \cup {StringWithTextBox(n, t) : n \in MaxLengths, t \in Texts}
    \cup {F32WithSlider(r, st, d) : r \in Ranges, st \in Steps, d \in DefVals}
    \cup {F32WithSpinBox(r, st, d) : r \in Ranges, st \in Steps, d \in DefVals}
    \cup {F64WithSlider(r, st, d) : r \in Ranges, st \in Steps, d \in DefVals}
    \cup {F64WithSpinBox(r, st, d) : r \in Ranges, st \in Steps, d \in DefVals}
    \cup {I32WithSlider(r, st, d) : r \in Ranges, st \in Steps, d \in DefVals}
    \cup {I32WithSpinBox(r, st, d) : r \in Ranges, st \in Steps, d \in DefVals}
    \cup {I64WithSlider(r, st, d) : r \in Ranges, st \in Steps, d \in DefVals}
    \cup {I64WithSpinBox(r, st, d) : r \in Ranges, st \in Steps, d \in DefVals}
    \cup {I32WithComboBox(n, d) : n \in OptionCounts, d \in DefVals}
    \cup {I32WithSelect(n, d) : n \in OptionCounts, d \in DefVals}
    \cup {I64WithComboBox(n, d) : n \in OptionCounts, d \in DefVals}
    \cup {I64WithSelect(n, d) : n \in OptionCounts, d \in DefVals}

PDid(op, arg, before) == [op |-> op, arg |-> arg, before |-> before]

InitProp == Init

\* the common effect of a property operation with outcome o
PFinish(o, l) ==
    /\ prop' = o.prop
    /\ pret' = o.ret
    /\ panicked' = o.panicked
    /\ plast' = l
    /\ UNCHANGED <<items, last, ret, overflow_checks>>
    /\ UNCHANGED actionVars

\* a call of a public constructor
Construct ==
    \E p \in Constructed :
        /\ ~panicked /\ prop = NoProp
        /\ PFinish(PropOutcome(p, <<>>, FALSE), PDid("construct", 0, 0))

\* with_combo_box / with_select with an empty options list:
\* `assert!(!options.is_empty())` fails
ConstructChoiceEmpty ==
    /\ ~panicked /\ prop = NoProp
    /\ PFinish(PropOutcome(prop, <<>>, TRUE), PDid("construct", 0, 0))

SetValue ==
    \E v \in Args :
        /\ ~panicked /\ IsNumeric(prop)
        /\ PFinish(NumSetValue(prop, v), PDid("set_value", v, 0))

StepForward ==
    /\ ~panicked /\ IsNumeric(prop)
    /\ PFinish(NumStep(prop, 1, overflow_checks), PDid("step_forward", 0, prop.value))

StepBackward ==
    /\ ~panicked /\ IsNumeric(prop)
    /\ PFinish(NumStep(prop, -1, overflow_checks), PDid("step_backward", 0, prop.value))

ValueMutWrite ==
    \E v \in Args :
        /\ ~panicked /\ IsNumeric(prop)
        /\ PFinish(NumValueMutWrite(prop, v), PDid("value_mut", v, 0))

NextProp ==
    \/ Construct
    \/ ConstructChoiceEmpty
    \/ SetValue
    \/ StepForward
    \/ StepBackward
    \/ ValueMutWrite

SpecProp == InitProp /\ [][NextProp]_vars

---------------------------------------------------------------------------
(* The access specification: typed access to one property, built by each   *)
(* public constructor, and lookup in a sheet of named properties.  The     *)
(* property under access lives outside the sheet; the two are independent  *)
(* and are exercised one at a time.                                        *)

Names == {"a", "b"}
\* the names looked up: "none" is the name of no item
LookupNames == Names \cup {"none"}

GetterTypes == ValueTypes \ {"Dummy"}
SetterTypes == GetterTypes \ {"Action"}
\* the value types the sheet has get_value_*_at / _of for
SheetGetterTypes == {"Bool", "F32", "F64", "I32", "String"}

\* the arguments of the typed write accessors
TypedArgs == {1, 5}
ArgsOf(T) == IF T = "Bool" THEN BOOLEAN ELSE IF T = "String" THEN Texts ELSE TypedArgs

\* one property of every public constructor
AccessProps ==
    {ActionWithButton, DummyWithSeparator}
    \cup {ActionWithCheckBox(c) : c \in BOOLEAN}
    \cup {BoolWithSwitch(d) : d \in BOOLEAN}
    \cup {StringWithTextBox(n, s) : n \in MaxLengths, s \in Texts}
    \cup {F32WithSlider(<<0, 2>>, 1, 0), F32WithSpinBox(<<0, 2>>, 1, 0),
          F64WithSlider(<<0, 2>>, 1, 0), F64WithSpinBox(<<0, 2>>, 1, 0),
          I32WithSlider(<<0, 2>>, 1, 0), I32WithSpinBox(<<0, 2>>, 1, 0),
          I64WithSlider(<<0, 2>>, 1, 0), I64WithSpinBox(<<0, 2>>, 1, 0),
          I32WithComboBox(MaxOptions, 0), I32WithSelect(MaxOptions, 0),
          I64WithComboBox(MaxOptions, 0), I64WithSelect(MaxOptions, 0)}

\* the properties the sheet of named properties is built of: switch,
\* slider_f32, slider_f64, combo_box_i32 and text_box, one property for each
\* value type the sheet has a typed accessor for
SheetProps ==
    {BoolWithSwitch(FALSE),
     F32WithSlider(<<0, 2>>, 1, 0), F64WithSlider(<<0, 2>>, 1, 0),
     I32WithComboBox(MaxOptions, 0),
     StringWithTextBox(128, <<"O", "k">>)}

PAccess(op, T, arg, before) ==
    [op |-> op, type |-> T, arg |-> arg, before |-> before,
     prev_op |-> plast.op, prev_before |-> plast.before]
Looked(op, T, index, name) ==
    [op |-> op, type |-> T, index |-> index, name |-> name, before |-> items]

InitAccess ==
    /\ items = <<>>
    /\ last = Looked("new", "Unknown", 0, "none")
    /\ ret = <<>>
    /\ panicked = FALSE
    /\ overflow_checks = TRUE    \* no operation here computes on usize, i32 or i64
    /\ prop = NoProp
    /\ plast = [op |-> "none", type |-> "Unknown", arg |-> 0, before |-> NoProp,
                prev_op |-> "none", prev_before |-> NoProp]
    /\ pret = <<>>
    /\ ActionsIdle

\* a call of a public constructor
ConstructAccess ==
    \E p \in AccessProps :
        /\ ~panicked /\ prop = NoProp /\ items = <<>>
        /\ PFinish(PropOutcome(p, <<>>, FALSE), PAccess("construct", "Unknown", 0, prop))

\* is_action_checked() / get_value_T()
TypedGetProp ==
    \E T \in GetterTypes :
        /\ ~panicked /\ prop /= NoProp
        /\ PFinish(PropOutcome(prop, TypedGet(T, prop), FALSE),
                   PAccess("typed_get", T, 0, prop))

\* set_value_T(v)
TypedSetProp ==
    \E T \in SetterTypes :
        \E v \in ArgsOf(T) :
            /\ ~panicked /\ prop /= NoProp
            /\ PFinish(TypedSet(T, prop, v), PAccess("typed_set", T, v, prop))

\* trigger_action(requested), the callback returning r
TriggerActionProp ==
    \E requested \in BOOLEAN, r \in BOOLEAN :
        /\ ~panicked /\ prop /= NoProp
        /\ PFinish(TriggerAction(prop, requested, r),
                   PAccess("trigger_action", "Action", requested, prop))

\* PropertyBool::toggle(); arg counts the toggle() calls made in a row since
\* the construction (0 when another call came in between)
Toggle ==
    LET n == IF plast.op = "construct" THEN 1
             ELSE IF plast.op = "toggle" /\ plast.arg > 0 THEN plast.arg + 1
             ELSE 0
    IN  /\ ~panicked /\ AsPropertyBool(prop) /\ n <= MaxToggles
        /\ PFinish(BoolToggle(prop), PAccess("toggle", "Bool", n, prop))

\* PropertyString::set_value(s)
StringSet ==
    \E s \in Texts :
        /\ ~panicked /\ AsPropertyString(prop)
        /\ PFinish(StringSetValue(prop, s), PAccess("string_set_value", "String", s, prop))

\* `p.value_mut().push('!')` on the string property
StringEdit ==
    /\ ~panicked /\ AsPropertyString(prop) /\ Len(prop.text) < MaxText
    /\ PFinish(StringPush(prop, "!"), PAccess("value_mut_push", "String", "!", prop))

\* switch(name, ..), slider_f32(name, ..), ..., append(item): a named
\* property is added to the sheet
NamedBuilder ==
    \E name \in Names, p \in SheetProps :
        /\ ~panicked /\ prop = NoProp /\ Len(items) < MaxNamed
        /\ Finish(Outcome(SheetAppend(items, Named(p, name)), FALSE),
                  Looked("builder", "Unknown", Len(items), name), <<>>)

\* find(name)
FindItem ==
    \E name \in LookupNames :
        /\ ~panicked /\ items /= <<>>
        /\ Finish(Outcome(items, FALSE), Looked("find", "Unknown", 0, name),
                  SheetFind(items, name))

\* find_mut(name)
FindMutItem ==
    \E name \in LookupNames :
        /\ ~panicked /\ items /= <<>>
        /\ Finish(Outcome(items, FALSE), Looked("find_mut", "Unknown", 0, name),
                  SheetFind(items, name))

\* get_value_T_at(index), index = len being a miss
GetValueAt ==
    \E T \in SheetGetterTypes, index \in 0..Len(items) :
        /\ ~panicked /\ items /= <<>>
        /\ Finish(Outcome(items, FALSE), Looked("get_value_at", T, index, "none"),
                  SheetGetValueAt(items, T, index))

\* get_value_T_of(name)
GetValueOf ==
    \E T \in SheetGetterTypes, name \in LookupNames :
        /\ ~panicked /\ items /= <<>>
        /\ Finish(Outcome(items, FALSE), Looked("get_value_of", T, 0, name),
                  SheetGetValueOf(items, T, name))

\* `ps.get(index).unwrap().as_property_string().unwrap().value_mut().push('!')`
ItemStringEdit ==
    \E index \in 0..(Len(items) - 1) :
        /\ ~panicked
        /\ AsPropertyString(At(items, index))
        /\ Len(At(items, index).text) < MaxText
        /\ Finish(Outcome([items EXCEPT ![index + 1] = StringPush(@, "!").prop], FALSE),
                  Looked("value_mut_push", "String", index, "none"), <<>>)

NextAccess ==
    \/ ConstructAccess
    \/ TypedGetProp
    \/ TypedSetProp
    \/ TriggerActionProp
    \/ Toggle
    \/ StringSet
    \/ StringEdit
    \/ NamedBuilder
    \/ FindItem
    \/ FindMutItem
    \/ GetValueAt
    \/ GetValueOf
    \/ ItemStringEdit

SpecAccess == InitAccess /\ [][NextAccess]_vars

---------------------------------------------------------------------------
(* The action specification: PropertyAction::trigger, step by step, on the *)
(* action properties of one sheet shared by two threads.  The properties   *)
(* share one callback handle, an Arc<RefCell<..>>; PropertyAction is       *)
(* declared Sync, so both threads reach the same RefCell, whose borrow     *)
(* flag is a plain Cell: its test and its write are separate steps.  The   *)
(* callback is any FnMut(&dyn Property, bool) -> bool: it may trigger an   *)
(* action property itself and it returns any value.                        *)

\* the calls in flight over all threads
InFlight == {c \in Threads \X (1..MaxCalls) : c[2] <= Len(stacks[c[1]])}

\* the calls whose callback is running
Running == {c \in InFlight : stacks[c[1]][c[2]].pc = "callback"}

Top(t) == stacks[t][Len(stacks[t])]

SetTop(t, frame) == [stacks EXCEPT ![t][Len(stacks[t])] = frame]

ActDid(op, frame, r) ==
    [op |-> op, prop |-> frame.prop, requested |-> frame.requested,
     via |-> frame.via, calls |-> frame.calls, r |-> r]

\* Mutation of TriggerFinish: the requested value is stored and returned.
TriggerFinishRequested(chk, frame, r) ==
    [checked |-> [chk EXCEPT ![frame.prop] = frame.requested],
     ret |-> IF frame.via = "trigger_action"
             THEN <<frame.requested>> ELSE frame.requested]

\* `self.checked.set(result); result`, and Some(result) from trigger_action
TriggerFinish(chk, frame, r) ==
    [checked |-> [chk EXCEPT ![frame.prop] = r],
     ret |-> IF frame.via = "trigger_action" THEN <<r>> ELSE r]

\* p.trigger(requested) or p.trigger_action(requested) is called, from the
\* top level of a thread or from inside the running callback
Call ==
    \E t \in Threads \ dead, p \in ActionProps, requested \in BOOLEAN,
       via \in {"trigger", "trigger_action"} :
        /\ Cardinality(InFlight) < MaxCalls
        /\ IF stacks[t] = <<>> THEN TRUE ELSE Top(t).pc = "callback"
        /\ stacks' = [stacks EXCEPT ![t] = Append(@,
                        [prop |-> p, requested |-> requested, via |-> via,
                         pc |-> "borrow_mut", calls |-> <<>>])]
        /\ UNCHANGED <<borrow, action_checked, dead>>
        /\ UNCHANGED <<items, last, ret, panicked, overflow_checks, prop, plast, pret>>

\* `self.callback.borrow_mut()`, the test of the flag: a flag that is not
\* UNUSED panics with BorrowMutError, and the unwinding thread drops the
\* guards its outer calls hold
BorrowMutTest ==
    \E t \in Threads :
        /\ stacks[t] /= <<>> /\ Top(t).pc = "borrow_mut"
        /\ IF borrow = 0
           THEN /\ stacks' = SetTop(t, [Top(t) EXCEPT !.pc = "borrowing"])
                /\ UNCHANGED <<borrow, dead>>
           ELSE /\ stacks' = [stacks EXCEPT ![t] = <<>>]
                /\ dead' = dead \cup {t}
                /\ borrow' = borrow + Cardinality({c \in Running : c[1] = t})
        /\ UNCHANGED action_checked
        /\ UNCHANGED <<items, last, ret, panicked, overflow_checks, prop, plast, pret>>

\* the write of the flag that completes borrow_mut, and the call of the
\* callback with (self, checked): `(caller)(self, checked)`
BorrowMutWrite ==
    \E t \in Threads :
        /\ stacks[t] /= <<>> /\ Top(t).pc = "borrowing"
        /\ borrow' = -1
        /\ stacks' = SetTop(t, [Top(t) EXCEPT
                        !.pc = "callback",
                        !.calls = Append(@, <<Top(t).prop, Top(t).requested>>)])
        /\ UNCHANGED <<action_checked, dead>>
        /\ UNCHANGED <<items, last, ret, panicked, overflow_checks, prop, plast, pret>>

\* the callback returns r: the result is stored and returned, and the guard
\* is dropped at the end of trigger
CallbackReturn ==
    \E t \in Threads, r \in BOOLEAN :
        /\ stacks[t] /= <<>> /\ Top(t).pc = "callback"
        /\ action_checked' = TriggerFinish(action_checked, Top(t), r).checked
        /\ pret' = TriggerFinish(action_checked, Top(t), r).ret
        /\ plast' = ActDid("trigger", Top(t), r)
        /\ borrow' = borrow + 1
        /\ stacks' = [stacks EXCEPT ![t] = SubSeq(@, 1, Len(@) - 1)]
        /\ UNCHANGED dead
        /\ UNCHANGED <<items, last, ret, panicked, overflow_checks, prop>>

NextAction ==
    \/ Call
    \/ BorrowMutTest
    \/ BorrowMutWrite
    \/ CallbackReturn

\* a sheet with its action buttons, no trigger in flight; no operation here
\* computes on usize, i32 or i64
InitAction ==
    /\ items = <<>>
    /\ last = NoOp
    /\ ret = <<>>
    /\ panicked = FALSE
    /\ overflow_checks = TRUE
    /\ prop = NoProp
    /\ plast = PNoOp
    /\ pret = <<>>
    /\ ActionsIdle

SpecAction == InitAction /\ [][NextAction]_vars

---------------------------------------------------------------------------
(* The cycle specification: the Down key held.  Every frame                *)
(* PropertySheetInputCtrl::process finds Key::Down pressed and calls       *)
(* select_next_wrapped on a sheet as the builders leave it (id ==          *)
(* position), no separator at either end and no two separators next to     *)
(* each other, whatever is selected.  `last` counts the calls and keeps     *)
(* what selected_items() lists after each.                                 *)

\* the calls that are followed: enough to go round the longest sheet twice
MaxCycle == 2 * MaxLen + 1

\* the sheet of the widgets w with the items at the positions sel selected
SheetOf(w, sel) ==
    [k \in 1..Len(w) |-> SetSelected(SetId(NewItem(w[k]), k - 1), (k - 1) \in sel)]

\* no separator at position 0 or len - 1, no two separators adjacent
NoSeparatorRun(w) ==
    /\ w[1] /= Separator /\ w[Len(w)] /= Separator
    /\ \A k \in 1..(Len(w) - 1) : w[k] /= Separator \/ w[k + 1] /= Separator

InitCycle ==
    /\ \E n \in 1..MaxLen :
          \E w \in [1..n -> SheetWidgets], sel \in SUBSET (0..(n - 1)) :
              /\ NoSeparatorRun(w)
              /\ items = SheetOf(w, sel)
    /\ last = [op |-> "new", calls |-> 0, sels |-> <<>>, trail |-> <<>>]
    /\ ret = <<>>
    /\ panicked = FALSE
    /\ overflow_checks \in BOOLEAN
    /\ prop = NoProp
    /\ plast = PNoOp
    /\ pret = <<>>
    /\ ActionsIdle

\* process(ctx, ps) with Key::Down pressed: `ps.select_next_wrapped()`
ProcessDown ==
    /\ ~panicked /\ last.calls < MaxCycle
    /\ LET o == SheetSelectNextWrapped(items, overflow_checks)
       IN  Finish(o, [op |-> "select_next_wrapped", calls |-> last.calls + 1,
                      sels |-> SelectedItems(items),
                      trail |-> Append(last.trail, SelectedItems(o.items))],
                  <<>>)

NextCycle == ProcessDown

\* the key stays pressed: the next frame comes
SpecCycle == InitCycle /\ [][NextCycle]_vars /\ WF_vars(ProcessDown)

---------------------------------------------------------------------------
(* The input specification: PropertySheetInputCtrl::process on a sheet of  *)
(* whole properties, one call per frame.  process tests the keys in the    *)
(* order Enter, Up, Down, Left, Right with independent `if`s and keeps no  *)
(* state, so a frame with several keys pressed does what the frames of its *)
(* keys do one after the other; the frames modelled have one key pressed.  *)
(* The callback of an action property returns any value r.                 *)

Keys == {"Enter", "Up", "Down", "Left", "Right"}

\* one property of every value type, and the Select over i64 whose base is
\* built as an I32 one
InputProps ==
    {ActionWithButton, BoolWithSwitch(FALSE), DummyWithSeparator,
     StringWithTextBox(128, <<"O", "k">>),
     F32WithSlider(<<0, 1>>, 1, 0), F64WithSpinBox(<<0, 1>>, 1, 0),
     I32WithComboBox(2, 0), I64WithSlider(<<0, 1>>, 1, 0), I64WithSelect(2, 0)}

\* `.unwrap()` on a downcast that returned None
UnwrapNone(p) == PropOutcome(p, <<>>, TRUE)

\* the arm of `match p.value_type()` under Key::Left (sign = -1) and
\* Key::Right (sign = 1): the downcast of that value type, unwrapped, and the
\* call on it
ProcessArm(p, sign, r, checks) ==
    CASE p.value_type = "Action" ->
            IF AsPropertyAction(p) THEN ActionTrigger(p, TRUE, r) ELSE UnwrapNone(p)
      [] p.value_type = "Bool" ->
            IF AsPropertyBool(p) THEN BoolToggle(p) ELSE UnwrapNone(p)
      [] p.value_type = "F32" ->
            IF AsPropertyF32(p) THEN NumStep(p, sign, checks) ELSE UnwrapNone(p)
      [] p.value_type = "F64" ->
            IF AsPropertyF64(p) THEN NumStep(p, sign, checks) ELSE UnwrapNone(p)
      [] p.value_type = "I32" ->
            IF AsPropertyI32(p) THEN NumStep(p, sign, checks) ELSE UnwrapNone(p)
      [] p.value_type = "I64" ->
            IF AsPropertyI64(p) THEN NumStep(p, sign, checks) ELSE UnwrapNone(p)
      [] p.value_type = "String" ->
            IF AsPropertyString(p) THEN PropOutcome(p, <<>>, FALSE) ELSE UnwrapNone(p)
      [] OTHER -> PropOutcome(p, <<>>, FALSE)

\* `if let Some(p) = ps.current_selected() { match p.value_type() { .. } }`:
\* the item is shared with the sheet, the call writes the item in place
ProcessSelected(s, sign, r, checks) ==
    LET sels == SelectedItems(s)
    IN  IF SheetCurrentSelected(s) = <<>> THEN Outcome(s, FALSE)
        ELSE LET o == ProcessArm(SheetCurrentSelected(s)[1], sign, r, checks)
             IN  Outcome([s EXCEPT ![sels[1] + 1] = o.prop], o.panicked)

\* PropertySheetInputCtrl::process with the one key pressed
SheetProcess(s, key, r, checks) ==
    CASE key = "Up" -> SheetSelectPrevWrapped(s, checks)
      [] key = "Down" -> SheetSelectNextWrapped(s, checks)
      [] key = "Left" -> ProcessSelected(s, -1, r, checks)
      [] key = "Right" -> ProcessSelected(s, 1, r, checks)
      [] OTHER -> Outcome(s, FALSE)

InitInput ==
    /\ items = <<>>
    /\ last = [op |-> "new", key |-> "none", r |-> FALSE]
    /\ ret = <<>>
    /\ panicked = FALSE
    /\ overflow_checks \in BOOLEAN
    /\ prop = NoProp
    /\ plast = PNoOp
    /\ pret = <<>>
    /\ ActionsIdle

\* action_button, switch, separator, ..., append(item)
AddProperty ==
    \E p \in InputProps :
        /\ ~panicked /\ Len(items) < MaxInput
        /\ Finish(Outcome(SheetAppend(items, p), FALSE),
                  [op |-> "append", key |-> "none", r |-> FALSE], <<>>)

\* a frame: process(ctx, ps) with the key pressed; r is what the callback
\* returns if the frame triggers an action property
Process ==
    \E key \in Keys, r \in BOOLEAN :
        /\ ~panicked
        /\ (r = TRUE) =>
              /\ key \in {"Left", "Right"}
              /\ SheetCurrentSelected(items) /= <<>>
              /\ SheetCurrentSelected(items)[1].value_type = "Action"
        /\ Finish(SheetProcess(items, key, r, overflow_checks),
                  [op |-> "process", key |-> key, r |-> r], <<>>)

NextInput ==
    \/ AddProperty
    \/ Process

SpecInput == InitInput /\ [][NextInput]_vars

---------------------------------------------------------------------------
(* The frame specification: append, insert and remove on a sheet of whole  *)
(* properties.  The properties come to the sheet as their owner left       *)
(* them: checked, set to a value, selected or not, shown or hidden.        *)

\* Property::set_visible
SetVisible(p, b) == [p EXCEPT !.visible = b]

\* a checked check box and a slider moved to 1, each selected or not and
\* shown or hidden
FrameProps ==
    {SetVisible(SetSelected(p, sel), vis) :
        p \in {ActionWithCheckBox(TRUE),
                NumSetValue(I32WithSlider(<<0, 2>>, 1, 0), 1).prop},
        sel \in BOOLEAN, vis \in BOOLEAN}

InitFrame ==
    /\ items = <<>>
    /\ last = [op |-> "new", index |-> 0]
    /\ ret = <<>>
    /\ panicked = FALSE
    /\ overflow_checks \in BOOLEAN
    /\ prop = NoProp
    /\ plast = PNoOp
    /\ pret = <<>>
    /\ ActionsIdle

\* append(item)
FrameAppend ==
    \E p \in FrameProps :
        /\ ~panicked /\ Len(items) < MaxFrame
        /\ Finish(Outcome(SheetAppend(items, p), FALSE),
                  [op |-> "append", index |-> Len(items)], <<>>)

\* insert(index, item)
FrameInsert ==
    \E index \in 0..Len(items), p \in FrameProps :
        /\ ~panicked /\ Len(items) < MaxFrame
        /\ Finish(SheetInsert(items, index, p, overflow_checks),
                  [op |-> "insert", index |-> index], <<>>)

\* remove(index)
FrameRemove ==
    \E index \in 0..(Len(items) - 1) :
        /\ ~panicked
        /\ Finish(SheetRemove(items, index, overflow_checks),
                  [op |-> "remove", index |-> index],
                  SheetRemoved(items, index, overflow_checks))

NextFrame ==
    \/ FrameAppend
    \/ FrameInsert
    \/ FrameRemove

SpecFrame == InitFrame /\ [][NextFrame]_vars

---------------------------------------------------------------------------
(* The shared specification: two threads hold shared access to one sheet   *)
(* and call value-mutating methods on its properties with no lock between  *)
(* them (PropertyBool, PropertyI32, ... are declared Sync and keep the      *)
(* value in an UnsafeCell).  A single read and a single write of the cell  *)
(* are steps; what a method does between its read and its write is local   *)
(* to the calling thread.  `last` keeps the calls issued.                   *)

\* `ps.switch("Switch", false); ps.slider_i32("Slider", (0, 2), 1, 0);`
SharedSheet ==
    SheetAppend(SheetAppend(<<>>, Named(BoolWithSwitch(FALSE), "Switch")),
                Named(I32WithSlider(<<0, 2>>, 1, 0), "Slider"))

\* the calls a thread makes on the item at index: toggle and set_value on
\* the switch, step_forward, step_backward and set_value on the slider
SharedCalls ==
    {[index |-> 0, op |-> "toggle", arg |-> FALSE],
     [index |-> 0, op |-> "set_value", arg |-> TRUE],
     [index |-> 1, op |-> "step_forward", arg |-> 0],
     [index |-> 1, op |-> "step_backward", arg |-> 0],
     [index |-> 1, op |-> "set_value", arg |-> 2]}

\* the call c made on the sheet s with nothing in between
CallAtOnce(s, c, checks) ==
    [s EXCEPT ![c.index + 1] =
        CASE c.op = "toggle" -> BoolToggle(@).prop
          [] c.op = "step_forward" -> NumStep(@, 1, checks).prop
          [] c.op = "step_backward" -> NumStep(@, -1, checks).prop
          [] c.op = "set_value" /\ AsPropertyBool(@) -> BoolSetValue(@, c.arg).prop
          [] c.op = "set_value" /\ IsNumeric(@) -> NumSetValue(@, c.arg).prop]

\* `self.value()`: the read of the cell
CellRead(p) == IF AsPropertyBool(p) THEN p.bool_value ELSE p.value

\* the rest of the call of frame f on the property p, once the cell has been
\* read into f.local: the value is computed from f.local and written
CallWrite(p, f, checks) ==
    CASE f.op = "toggle" -> BoolSetValue(p, ~f.local)
      [] f.op = "step_forward" -> NumStep([p EXCEPT !.value = f.local], 1, checks)
      [] f.op = "step_backward" -> NumStep([p EXCEPT !.value = f.local], -1, checks)
      [] f.op = "set_value" /\ AsPropertyBool(p) -> BoolSetValue(p, f.arg)
      [] f.op = "set_value" /\ IsNumeric(p) -> NumSetValue(p, f.arg)

InitShared ==
    /\ items = SharedSheet
    /\ last = [log |-> <<>>]
    /\ ret = <<>>
    /\ panicked = FALSE
    /\ overflow_checks \in BOOLEAN
    /\ prop = NoProp
    /\ plast = PNoOp
    /\ pret = <<>>
    /\ ActionsIdle

\* a thread enters a call: set_value reads nothing of the cell and goes
\* straight to its write, toggle and step_* first read the value
Issue ==
    \E t \in Threads, c \in SharedCalls :
        /\ ~panicked /\ stacks[t] = <<>> /\ Len(last.log) < MaxIssued
        /\ stacks' = [stacks EXCEPT ![t] =
                        <<[index |-> c.index, op |-> c.op, arg |-> c.arg,
                           pc |-> IF c.op = "set_value" THEN "write" ELSE "read",
                           local |-> c.arg]>>]
        /\ last' = [log |-> Append(last.log,
                        [thread |-> t, index |-> c.index, op |-> c.op, arg |-> c.arg])]
        /\ UNCHANGED <<items, ret, panicked, overflow_checks, prop, plast, pret>>
        /\ UNCHANGED <<borrow, action_checked, dead>>

\* `self.value()` inside toggle / step_forward / step_backward
ReadValue ==
    \E t \in Threads :
        /\ ~panicked /\ stacks[t] /= <<>> /\ Top(t).pc = "read"
        /\ stacks' = SetTop(t, [Top(t) EXCEPT
                        !.pc = "write",
                        !.local = CellRead(At(items, Top(t).index))])
        /\ UNCHANGED <<items, last, ret, panicked, overflow_checks, prop, plast, pret>>
        /\ UNCHANGED <<borrow, action_checked, dead>>

\* `self.value.get().write(..)`, and the call returns
WriteValue ==
    \E t \in Threads :
        /\ ~panicked /\ stacks[t] /= <<>> /\ Top(t).pc = "write"
        /\ LET o == CallWrite(At(items, Top(t).index), Top(t), overflow_checks)
           IN  /\ items' = [items EXCEPT ![Top(t).index + 1] = o.prop]
               /\ ret' = o.ret
               /\ panicked' = o.panicked
        /\ stacks' = [stacks EXCEPT ![t] = <<>>]
        /\ UNCHANGED <<last, overflow_checks, prop, plast, pret>>
        /\ UNCHANGED <<borrow, action_checked, dead>>

NextShared ==
    \/ Issue
    \/ ReadValue
    \/ WriteValue

SpecShared == InitShared /\ [][NextShared]_vars

---------------------------------------------------------------------------
(* The hand-off specification, after tests::test_property_sheet: the       *)
(* spawned thread takes read access to the sheet and calls value-mutating  *)
(* methods on its items, one call after the other; the main thread reads   *)
(* the items through find and the typed accessors between those calls      *)
(* and, once the spawned thread has returned and has been joined, after    *)
(* them.  A read happens when no call is under way: each call is one step. *)
(* `last` keeps, for every item, what the last call on it returned.        *)

\* `ps.action_button("Foo", ..); ps.slider_f32("Float1", ..);
\*  ps.switch("Switch", false); ps.text_box("TextBox", 128, ..)`
TestSheet ==
    SheetAppend(SheetAppend(SheetAppend(SheetAppend(<<>>,
        Named(ActionWithButton, "Foo")),
        Named(F32WithSlider(<<0, 2>>, 1, 0), "Float1")),
        Named(BoolWithSwitch(FALSE), "Switch")),
        Named(StringWithTextBox(128, <<"O", "k">>), "TextBox"))

TestNames == {"Foo", "Float1", "Switch", "TextBox"}

\* the calls the spawned thread makes on the property p: trigger(true) with
\* the callback returning arg, set_value(arg), step_forward(), toggle() and
\* value_mut().push('!')
WriterCalls(p) ==
    CASE AsPropertyAction(p) -> {[op |-> "trigger", arg |-> r] : r \in BOOLEAN}
      [] AsPropertyF32(p) -> {[op |-> "set_value", arg |-> v] : v \in TypedArgs}
                                \cup {[op |-> "step_forward", arg |-> 0]}
      [] AsPropertyBool(p) -> {[op |-> "set_value", arg |-> TRUE],
                               [op |-> "toggle", arg |-> FALSE]}
      [] AsPropertyString(p) -> {[op |-> "set_value", arg |-> <<"F">>]}
                                   \cup (IF Len(p.text) < MaxText
                                         THEN {[op |-> "push", arg |-> "!"]} ELSE {})

\* the call c on the property p
WriterCall(p, c, checks) ==
    CASE c.op = "trigger" -> ActionTrigger(p, TRUE, c.arg)
      [] c.op = "step_forward" -> NumStep(p, 1, checks)
      [] c.op = "toggle" -> BoolToggle(p)
      [] c.op = "push" -> StringPush(p, c.arg)
      [] c.op = "set_value" /\ AsPropertyF32(p) -> NumSetValue(p, c.arg)
      [] c.op = "set_value" /\ AsPropertyBool(p) -> BoolSetValue(p, c.arg)
      [] c.op = "set_value" /\ AsPropertyString(p) -> StringSetValue(p, c.arg)

\* `ps.find(name)` and the typed accessor of T on what it found
FindAndGet(s, T, name) ==
    IF SheetFind(s, name) = <<>> THEN <<>> ELSE TypedGet(T, SheetFind(s, name)[1])

InitJoin ==
    /\ items = TestSheet
    /\ last = [op |-> "spawn", name |-> "none", type |-> "Unknown",
               written |-> [n \in TestNames |-> <<>>]]
    /\ ret = <<>>
    /\ panicked = FALSE
    /\ overflow_checks = TRUE
    /\ prop = NoProp
    /\ plast = PNoOp
    /\ pret = <<>>
    /\ borrow = 0
    /\ action_checked = [p \in ActionProps |-> FALSE]
    /\ stacks = [t \in Threads |-> <<[pc |-> IF t = "main" THEN "running" ELSE "closure"]>>]
    /\ dead = {}

\* the spawned thread: `if let Some(p) = ps.get(index) { p.as_property_..()
\* .unwrap().call(..) }`; push returns nothing, what it wrote is the buffer
Write ==
    \E index \in 0..(Len(items) - 1) :
        \E c \in WriterCalls(At(items, index)) :
            /\ ~panicked /\ stacks["spawned"] /= <<>>
            /\ LET o == WriterCall(At(items, index), c, overflow_checks)
               IN  /\ items' = [items EXCEPT ![index + 1] = o.prop]
                   /\ panicked' = o.panicked
                   /\ last' = [op |-> c.op, name |-> At(items, index).name,
                               type |-> At(items, index).value_type,
                               written |-> [last.written EXCEPT
                                   ![At(items, index).name] =
                                       IF c.op = "push"
                                       THEN <<Append(At(items, index).text, c.arg)>>
                                       ELSE o.ret]]
            /\ UNCHANGED <<ret, overflow_checks, prop, plast, pret>>
            /\ UNCHANGED actionVars

\* the closure of the spawned thread returns
WriterReturn ==
    /\ ~panicked /\ stacks["spawned"] /= <<>>
    /\ stacks' = [stacks EXCEPT !["spawned"] = <<>>]
    /\ UNCHANGED <<items, last, ret, panicked, overflow_checks, prop, plast, pret>>
    /\ UNCHANGED <<borrow, action_checked, dead>>

\* `th.join()` returns in the main thread
Join ==
    /\ ~panicked /\ stacks["spawned"] = <<>> /\ Top("main").pc = "running"
    /\ stacks' = SetTop("main", [pc |-> "joined"])
    /\ UNCHANGED <<items, last, ret, panicked, overflow_checks, prop, plast, pret>>
    /\ UNCHANGED <<borrow, action_checked, dead>>

\* the main thread: `ps.read().unwrap().find(name).unwrap().get_value_T()`
\* (is_action_checked() for Action)
Read ==
    \E name \in TestNames, T \in ValueTypes \ {"Dummy"} :
        /\ ~panicked
        /\ ret' = FindAndGet(items, T, name)
        /\ last' = [last EXCEPT !.op = "read", !.name = name, !.type = T]
        /\ UNCHANGED <<items, panicked, overflow_checks, prop, plast, pret>>
        /\ UNCHANGED actionVars

NextJoin ==
    \/ Write
    \/ WriterReturn
    \/ Join
    \/ Read

SpecJoin == InitJoin /\ [][NextJoin]_vars

---------------------------------------------------------------------------
(* Properties of the sheet.                                                *)

\* the positions of the selected items
SelectedSet(s) == {k \in 0..(Len(s) - 1) : At(s, k).selected}

\* the sequence q lists exactly the members of the set S, in ascending order
AscendingListOf(q, S) ==
    /\ {q[k] : k \in 1..Len(q)} = S
    /\ \A j, k \in 1..Len(q) : j < k => q[j] < q[k]

PrevOps == {"select_prev", "select_prev_wrapped"}
NextOps == {"select_next", "select_next_wrapped"}

\* the pivot of the last navigation call: the first id of its local `sels`
Pivot == last.sels[1]

\* C1: after any sequence of append, builder, insert and remove calls, every
\* item at position k has id() == k.
C1_IdentityInvariant ==
    \A k \in 0..(Len(items) - 1) : At(items, k).id = k

\* C1 witness: a remove(index) with 1 <= index that renumbered a later item.
C1_Witness ==
    /\ last.op = "remove" /\ ~panicked
    /\ last.index >= 1 /\ last.index < Len(items)
    /\ At(items, last.index).id = last.index

\* C2: select_prev / select_prev_wrapped with pivot i >= 1 select exactly i-2
\* when the item at i-1 is not selectable and i-2 >= 0, and exactly i-1 otherwise.
C2_PrevSkipsSeparator ==
    (last.op \in PrevOps /\ ~panicked /\ last.sels /= <<>> /\ Pivot >= 1)
        => SelectedSet(items) =
             {IF ~IsSelectable(At(items, Pivot - 1)) /\ Pivot - 2 >= 0
              THEN Pivot - 2 ELSE Pivot - 1}

\* C3: select_next / select_next_wrapped with pivot i < len-1 select exactly
\* i+2 when the item at i+1 is not selectable and i+2 <= len-1, and exactly
\* i+1 otherwise.
C3_NextSkipsSeparator ==
    (last.op \in NextOps /\ ~panicked /\ last.sels /= <<>> /\ Pivot < Len(items) - 1)
        => SelectedSet(items) =
             {IF ~IsSelectable(At(items, Pivot + 1)) /\ Pivot + 2 <= Len(items) - 1
              THEN Pivot + 2 ELSE Pivot + 1}

\* C3 witness: on [selectable, selectable, Separator, selectable] with id 1
\* selected, select_next has selected exactly id 3.
C3_Witness ==
    /\ last.op = "select_next" /\ last.sels = <<1>>
    /\ Len(items) = 4
    /\ IsSelectable(At(items, 0)) /\ IsSelectable(At(items, 1))
    /\ ~IsSelectable(At(items, 2)) /\ IsSelectable(At(items, 3))
    /\ SelectedItems(items) = <<3>>

\* C8: after select_items(ids) an item is selected iff its id is in ids, and
\* selected_items() lists exactly the in-range ids, once each, ascending.
C8_SelectItemsExclusive ==
    (last.op = "select_items")
        => /\ \A k \in 0..(Len(items) - 1) : At(items, k).selected <=> (k \in last.ids)
           /\ AscendingListOf(SelectedItems(items),
                              last.ids \cap (0..(Len(items) - 1)))

\* C8 witness: select_items with two listed items, an unlisted item and an id
\* that is out of range.
C8_Witness ==
    /\ last.op = "select_items"
    /\ Len(items) = 3 /\ last.ids = {0, 2, 3}
    /\ SelectedItems(items) = <<0, 2>>
    /\ ~At(items, 1).selected

\* C9: with the pivot at the boundary, select_prev / select_next change no
\* selected flag, select_prev_wrapped selects exactly len-1 and
\* select_next_wrapped exactly 0.
C9_Boundary ==
    (~panicked /\ last.sels /= <<>>) =>
        /\ (last.op = "select_prev" /\ Pivot = 0)
              => SelectedItems(items) = last.sels
        /\ (last.op = "select_next" /\ Pivot = Len(items) - 1)
              => SelectedItems(items) = last.sels
        /\ (last.op = "select_prev_wrapped" /\ Pivot = 0)
              => SelectedSet(items) = {Len(items) - 1}
        /\ (last.op = "select_next_wrapped" /\ Pivot = Len(items) - 1)
              => SelectedSet(items) = {0}

\* C9 witness: four selectable items, the last one selected, and
\* select_next_wrapped has moved the selection to index 0.
C9_Witness ==
    /\ last.op = "select_next_wrapped" /\ last.sels = <<3>>
    /\ Len(items) = 4 /\ \A k \in 0..3 : IsSelectable(At(items, k))
    /\ SelectedItems(items) = <<0>>

\* C10: on a non-empty sheet with nothing selected, select_prev and
\* select_prev_wrapped select exactly len-1, select_next and
\* select_next_wrapped exactly 0.
C10_NothingSelected ==
    (~panicked /\ last.sels = <<>> /\ Len(items) > 0) =>
        /\ last.op \in PrevOps => SelectedSet(items) = {Len(items) - 1}
        /\ last.op \in NextOps => SelectedSet(items) = {0}

\* C10 witness: select_prev on three unselected items has selected the last.
C10_Witness ==
    /\ last.op = "select_prev" /\ last.sels = <<>>
    /\ Len(items) = 3 /\ SelectedItems(items) = <<2>>

\* the four navigation operations
NavOps == PrevOps \cup NextOps

\* the navigation operation named op, applied to the sheet s
NavOutcome(op, s, checks) ==
    CASE op = "select_prev" -> SheetSelectPrev(s, checks)
      [] op = "select_prev_wrapped" -> SheetSelectPrevWrapped(s, checks)
      [] op = "select_next" -> SheetSelectNext(s, checks)
      [] op = "select_next_wrapped" -> SheetSelectNextWrapped(s, checks)

\* the smallest position of a selected item
FirstSelected(s) == CHOOSE k \in SelectedSet(s) : \A j \in SelectedSet(s) : k <= j

\* C11: a navigation call made with several items selected either leaves
\* every selected flag as it was or ends in the sheet the same call yields
\* when the first selected item alone is selected, a single selected item;
\* current_selected() returns the item at the first selected position, None
\* when nothing is selected.
C11_FirstSelectedIsPivot ==
    /\ (last.op \in NavOps /\ ~panicked /\ Len(last.sels) >= 2)
          => \/ SelectedItems(items) = last.sels
             \/ /\ items = NavOutcome(last.op, SelectItemsOf(items, {Pivot}),
                                      overflow_checks).items
                /\ Cardinality(SelectedSet(items)) = 1
    /\ (last.op = "current_selected")
          => ret = IF SelectedSet(items) = {} THEN <<>>
                   ELSE <<At(items, FirstSelected(items))>>

\* C11 witness: with ids 0 and 2 selected of four selectable items,
\* select_next has moved from pivot 0: exactly id 1 is selected.
C11_Witness ==
    /\ last.op = "select_next" /\ last.sels = <<0, 2>>
    /\ Len(items) = 4 /\ \A k \in 0..3 : IsSelectable(At(items, k))
    /\ SelectedItems(items) = <<1>>

\* C16: insert(index, item) with index > len and remove(index) with
\* index >= len abort, and the sheet they leave is the sheet they found: the
\* same items in the same order, no id modified.
C16_AbortLeavesSheet ==
    [][(\/ last'.op = "insert" /\ last'.index > Len(items)
        \/ last'.op = "remove" /\ last'.index >= Len(items))
           => (panicked' /\ items' = items /\ ret' = <<>>)]_vars

\* C16 witness: remove(len) on a sheet of three items has aborted.
C16_Witness ==
    /\ last.op = "remove" /\ panicked
    /\ Len(items) = 3 /\ last.index = 3
    /\ \A k \in 0..2 : At(items, k).id = k

\* C24: for every index in [0, len), a remove(index) that returns has
\* returned the item formerly at position index with its id decremented once
\* as a usize (index - 1, the wrapped 0 - 1 for index == 0), and every item
\* remaining in the sheet at position k has id() == k.
C24_RemoveReturns ==
    [][(last'.op = "remove" /\ ~panicked' /\ last'.index < Len(items))
          => /\ ret' = <<[At(items, last'.index)
                            EXCEPT !.id = UsizeWrap(last'.index - 1)]>>
             /\ Len(items') = Len(items) - 1
             /\ \A k \in 0..(Len(items') - 1) : At(items', k).id = k]_vars

\* C24 witness: remove(0) on a sheet of three items has returned, the item
\* it returned carrying the id 0 - 1 wrapped to the largest usize.
C24_Witness ==
    /\ last.op = "remove" /\ last.index = 0 /\ ~panicked
    /\ ret /= <<>> /\ ret[1].id = UsizeMax
    /\ Len(items) = 2 /\ At(items, 0).id = 0 /\ At(items, 1).id = 1

\* the wrapped navigation operations
WrappedOps == {"select_prev_wrapped", "select_next_wrapped"}

\* C26: on a non-empty sheet, after select_prev_wrapped or
\* select_next_wrapped exactly one item is selected whatever was selected
\* before; after select_prev or select_next from at most one selected item,
\* exactly one item is selected.
C26_ExactlyOneSelected ==
    (last.op \in NavOps /\ ~panicked /\ Len(items) > 0
     /\ (last.op \in WrappedOps \/ Len(last.sels) <= 1))
        => Cardinality(SelectedSet(items)) = 1

\* C26 witness: select_prev_wrapped called with three of four items
\* selected, a separator before the pivot, has left one item selected.
C26_Witness ==
    /\ last.op = "select_prev_wrapped" /\ last.sels = <<2, 3>>
    /\ Len(items) = 4 /\ ~IsSelectable(At(items, 1))
    /\ Cardinality(SelectedSet(items)) = 1

\* C27: each navigation operation completes on every sheet and every
\* selection, the empty sheet and the one-item sheet included, and on the
\* empty sheet it leaves the sheet empty with nothing selected.
C27_NavNeverFails ==
    (last.op \in NavOps)
        => /\ ~panicked
           /\ Len(items) = 0 => SelectedSet(items) = {}

\* the sheet the navigation is written for: no separator at position 0 or
\* len - 1 and no two separators next to each other
Separated(s) ==
    /\ \A k \in 0..(Len(s) - 2) : IsSelectable(At(s, k)) \/ IsSelectable(At(s, k + 1))
    /\ Len(s) > 0 => (IsSelectable(At(s, 0)) /\ IsSelectable(At(s, Len(s) - 1)))

\* every selected item is selectable
OnSelectable(s) == \A k \in SelectedSet(s) : IsSelectable(At(s, k))

\* C25: on such a sheet with nothing selected or one selectable item
\* selected, a navigation call leaves every selected item selectable (with
\* C26 the starting condition holds again after the call, hence after any
\* sequence of calls).
C25_NavKeepsSelectable ==
    [][(/\ Separated(items) /\ OnSelectable(items)
        /\ Cardinality(SelectedSet(items)) <= 1
        /\ last'.op \in NavOps /\ ~panicked')
          => OnSelectable(items')]_vars

\* C29: on such a sheet with exactly one selectable item selected,
\* select_next_wrapped followed by select_prev_wrapped restores the
\* selection, and so does select_prev_wrapped followed by
\* select_next_wrapped.
C29_UpDownInverse ==
    [][(/\ Separated(items) /\ ~panicked'
        /\ Len(last.sels) = 1
        /\ \/ last.op = "select_next_wrapped" /\ last'.op = "select_prev_wrapped"
           \/ last.op = "select_prev_wrapped" /\ last'.op = "select_next_wrapped"
        /\ IsSelectable(At(items, last.sels[1])))
          => SelectedItems(items') = last.sels]_vars

\* the positions of the selectable items
SelectableSet(s) == {k \in 0..(Len(s) - 1) : IsSelectable(At(s, k))}

\* the selectable position that follows i in increasing order, position 0
\* after the last one
NextSelectable(s, i) ==
    IF \E k \in SelectableSet(s) : k > i
    THEN CHOOSE k \in SelectableSet(s) :
            k > i /\ \A j \in SelectableSet(s) : j > i => k <= j
    ELSE 0

\* what the calls so far have selected, call by call
Trail == last.trail

\* C28: with select_next_wrapped called again and again, every call leaves
\* exactly one item selected, a selectable one; each call moves the selection
\* to the next selectable position in increasing order, position 0 after the
\* last; the selection is back on an item after as many calls as there are
\* selectable items and not before; and every selectable item is eventually
\* selected.
C28_NextWrappedCycles ==
    /\ [](/\ ~panicked
          /\ \A j \in 1..Len(Trail) :
                Len(Trail[j]) = 1 /\ Trail[j][1] \in SelectableSet(items)
          /\ \A j \in 1..(Len(Trail) - 1) :
                Trail[j + 1][1] = NextSelectable(items, Trail[j][1])
          /\ \A j, k \in 1..Len(Trail) :
                (j < k /\ Trail[j] = Trail[k])
                    => (k - j) % Cardinality(SelectableSet(items)) = 0
          /\ \A j \in 1..Len(Trail) :
                (j + Cardinality(SelectableSet(items)) <= Len(Trail))
                    => Trail[j + Cardinality(SelectableSet(items))] = Trail[j])
    /\ \A k \in 0..(MaxLen - 1) :
          <>(k \in SelectableSet(items) => \E j \in 1..Len(Trail) : Trail[j] = <<k>>)

\* C28 witness: on [Button, Separator, Button, Button], starting with the
\* separator and the last item selected, the fourth call has brought the
\* selection back to where the first call put it.
C28_Witness ==
    /\ Len(items) = 4 /\ SelectableSet(items) = {0, 2, 3}
    /\ last.op = "select_next_wrapped"
    /\ Len(Trail) >= 4
    /\ Trail[1] = <<2>> /\ Trail[2] = <<3>> /\ Trail[3] = <<0>> /\ Trail[4] = <<2>>

---------------------------------------------------------------------------
(* Properties of the input controller.                                     *)

NumericTypes == {"F32", "F64", "I32", "I64"}

\* the operation the value type of p chooses: the property it leaves
Chosen(p, key, r) ==
    CASE p.value_type = "Action" -> [p EXCEPT !.checked = r]
      [] p.value_type = "Bool" -> [p EXCEPT !.bool_value = ~p.bool_value]
      [] p.value_type \in NumericTypes ->
            [p EXCEPT !.value = Clamp(IF key = "Left" THEN p.value - p.step
                                      ELSE p.value + p.step, p.range)]
      [] OTHER -> p

\* C23: a frame with Left or Right pressed completes; with no item selected
\* it changes nothing; otherwise it leaves the current selected item as the
\* operation chosen by its value type leaves it (Action: triggered, the
\* callback's result stored; Bool: toggled; F32 / F64 / I32 / I64: stepped
\* backward on Left and forward on Right; String and Dummy: as it was) and
\* every other item as it was.
C23_ProcessDispatch ==
    [][(last'.op = "process" /\ last'.key \in {"Left", "Right"})
          => /\ ~panicked'
             /\ Len(items') = Len(items)
             /\ \A k \in 0..(Len(items) - 1) :
                   At(items', k) =
                       IF SelectedItems(items) /= <<>> /\ k = SelectedItems(items)[1]
                       THEN Chosen(At(items, k), last'.key, last'.r)
                       ELSE At(items, k)]_vars

---------------------------------------------------------------------------
(* Properties of the structural operations on whole properties.            *)

\* a property without its id: the selected flag, the visible flag, the
\* value, the checked state and every other field
Payload(p) == [p EXCEPT !.id = 0]

\* where the item at position k of the sheet is after the call (op, index);
\* -1 for the item that remove takes out
MovedTo(op, index, k) ==
    CASE op = "insert" /\ k >= index -> k + 1
      [] op = "remove" /\ k > index -> k - 1
      [] op = "remove" /\ k = index -> -1
      [] OTHER -> k

\* C30: append, insert and remove leave every field but the id of every
\* item that stays in the sheet as it was, keep those items in their order
\* and keep the id of the items below index; the selected items afterwards
\* are the selected items before, the removed one left out, and
\* selected_items() lists them under their new ids (next to the new item
\* if it came selected).
C30_StructuralFrame ==
    [][(last'.op \in {"append", "insert", "remove"})
          => IF panicked'
             THEN /\ Len(items') = Len(items)
                  /\ \A k \in 0..(Len(items) - 1) :
                        Payload(At(items', k)) = Payload(At(items, k))
             ELSE /\ Len(items') = Len(items) + (IF last'.op = "remove" THEN -1 ELSE 1)
                  /\ \A k \in 0..(Len(items) - 1) :
                        MovedTo(last'.op, last'.index, k) >= 0
                            => Payload(At(items', MovedTo(last'.op, last'.index, k)))
                                  = Payload(At(items, k))
                  /\ \A k \in 0..(Len(items) - 1) :
                        k < last'.index => At(items', k) = At(items, k)
                  /\ {SelectedItems(items')[j] : j \in 1..Len(SelectedItems(items'))}
                        \ (IF last'.op = "remove" THEN {} ELSE {last'.index})
                      = {MovedTo(last'.op, last'.index, k) : k \in SelectedSet(items)}
                            \ {-1}]_vars

\* C30 witness: insert(1, item) on a sheet of two items has moved the
\* selected, hidden, checked item of position 1 to position 2, where
\* selected_items() reports it under the id 2.
C30_Witness ==
    /\ last.op = "insert" /\ last.index = 1 /\ ~panicked
    /\ Len(items) = 3
    /\ At(items, 2).selected /\ ~At(items, 2).visible /\ At(items, 2).checked
    /\ ~At(items, 1).selected /\ ~At(items, 0).selected
    /\ SelectedItems(items) = <<2>>

---------------------------------------------------------------------------
(* Properties of the shared sheet.                                         *)

\* the orders in which n calls can be made one after the other
Orders(n) == {f \in [1..n -> 1..n] : \A j, k \in 1..n : f[j] = f[k] => j = k}

\* the sheet after the calls of the log in the order f, one at a time
RECURSIVE InOrder(_, _, _, _, _)
InOrder(s, log, f, k, checks) ==
    IF k > Len(log) THEN s
    ELSE InOrder(CallAtOnce(s, log[f[k]], checks), log, f, k + 1, checks)

\* C21: when the calls the two threads have issued have all returned, the
\* sheet is one that the same calls, made one after the other in some
\* order, also yield (no lost update).
C21_Sequential ==
    (\A t \in Threads : stacks[t] = <<>>)
        => \E f \in Orders(Len(last.log)) :
              items = InOrder(SharedSheet, last.log, f, 1, overflow_checks)

\* the value type of the item of the test sheet named name
TestType(name) == SheetFind(TestSheet, name)[1].value_type

---------------------------------------------------------------------------
(* Properties of typed access and of lookup.                               *)

\* the positions of the items of the sheet s named name
NamedAt(s, name) == {k \in 0..(Len(s) - 1) : At(s, k).name = name}

\* the smallest member of a non-empty set of positions
Least(S) == CHOOSE k \in S : \A j \in S : k <= j

\* C14: a typed accessor of a property returns Some iff the property's
\* value type is T and otherwise returns None and leaves every field as it
\* was, and no typed access fails; get_value_T_at(index) returns Some iff
\* index < len and the item at index has value type T; get_value_T_of(name)
\* returns Some iff an item named name exists and the first has value type T.
C14_TypedAccess ==
    /\ ~panicked
    /\ (plast.op = "typed_get")
          => /\ (pret /= <<>>) <=> (prop.value_type = plast.type)
             /\ prop = plast.before
    /\ (plast.op \in {"typed_set", "trigger_action"})
          => /\ (pret /= <<>>) <=> (plast.before.value_type = plast.type)
             /\ (pret = <<>>) => (prop = plast.before)
    /\ (last.op = "get_value_at")
          => ((ret /= <<>>) <=> /\ last.index < Len(items)
                                /\ At(items, last.index).value_type = last.type)
    /\ (last.op = "get_value_of")
          => ((ret /= <<>>) <=>
                /\ NamedAt(items, last.name) /= {}
                /\ At(items, Least(NamedAt(items, last.name))).value_type = last.type)

FindOps == {"find", "find_mut"}

\* C15: find(name) and find_mut(name) return the item at the smallest
\* position among the items named name, None iff no item has that name, and
\* leave the sheet as it was.
C15_FindFirstMatch ==
    (last.op \in FindOps)
        => /\ ret = IF NamedAt(items, last.name) = {} THEN <<>>
                    ELSE <<At(items, Least(NamedAt(items, last.name)))>>
           /\ (ret = <<>>) <=> (\A k \in 0..(Len(items) - 1) : At(items, k).name /= last.name)
           /\ items = last.before
           /\ ~panicked

\* C15 witness: two items of different kinds share the name "a" and
\* find("a") has returned the one at position 0.
C15_Witness ==
    /\ last.op = "find" /\ last.name = "a"
    /\ Len(items) = 2
    /\ At(items, 0).name = "a" /\ At(items, 1).name = "a"
    /\ At(items, 0).struct /= At(items, 1).struct
    /\ ret = <<At(items, 0)>>

\* C19: a toggle() stores and returns the negation of the value it found;
\* after n toggle() calls in a row on a Bool property constructed with
\* def_val d, value() == (d XOR (n is odd)); two toggle() calls in a row
\* restore the value; set_value(v) stores v.
C19_ToggleLaw ==
    /\ (plast.op = "toggle")
          => /\ pret = <<prop.bool_value>>
             /\ prop.bool_value = ~plast.before.bool_value
             /\ plast.arg > 0
                  => prop.bool_value = (prop.bool_def /= (plast.arg % 2 = 1))
             /\ plast.prev_op = "toggle"
                  => prop.bool_value = plast.prev_before.bool_value
    /\ (plast.op = "typed_set" /\ plast.type = "Bool" /\ AsPropertyBool(prop))
          => (prop.bool_value = plast.arg /\ pret = <<plast.arg>>)

\* C19 witness: the third toggle() in a row on a switch constructed false
\* has returned true.
C19_Witness ==
    /\ plast.op = "toggle" /\ plast.arg = 3
    /\ prop.bool_def = FALSE /\ prop.bool_value = TRUE /\ pret = <<TRUE>>

\* C20: a string property built by with_text_box has value() == def;
\* set_value(s) leaves value() == s whatever the buffer held and whatever the
\* length of s is next to max_length; a push through value_mut() extends the
\* buffer by that character, and value(), get_value_string() and the
\* sheet's get_value_string_at / _of return the buffer as it then is.
C20_StringBuffer ==
    /\ (plast.op = "construct" /\ AsPropertyString(prop))
          => prop.text = prop.text_def
    /\ (plast.op = "string_set_value")
          => (prop.text = plast.arg /\ pret = <<plast.arg>>)
    /\ (plast.op = "typed_set" /\ plast.type = "String" /\ AsPropertyString(prop))
          => (prop.text = plast.arg /\ pret = <<plast.arg>>)
    /\ (plast.op = "value_mut_push")
          => prop.text = Append(plast.before.text, plast.arg)
    /\ (plast.op = "typed_get" /\ plast.type = "String" /\ AsPropertyString(prop))
          => pret = <<prop.text>>
    /\ (last.op = "value_mut_push")
          => At(items, last.index).text = Append(At(last.before, last.index).text, "!")
    /\ (last.op = "get_value_at" /\ last.type = "String" /\ ret /= <<>>)
          => ret = <<At(items, last.index).text>>
    /\ (last.op = "get_value_of" /\ last.type = "String" /\ ret /= <<>>)
          => ret = <<At(items, Least(NamedAt(items, last.name))).text>>

\* C20 witness: on a text box of max_length 1 holding "!", set_value("Ok")
\* has left the two characters "Ok".
C20_Witness ==
    /\ plast.op = "string_set_value" /\ prop.max_length = 1
    /\ plast.before.text = <<"!">>
    /\ plast.arg = <<"O", "k">> /\ prop.text = <<"O", "k">>
    /\ pret = <<<<"O", "k">>>>

---------------------------------------------------------------------------
(* Properties of the action property.                                      *)

\* C17: a trigger(requested) that has returned has invoked the callback
\* exactly once, with (the property, requested); the value r the callback
\* returned is the checked state and the value returned, whatever requested
\* was; trigger_action(requested) has returned Some(r).
C17_TriggerStoresResult ==
    (plast.op = "trigger")
        => /\ plast.calls = <<<<plast.prop, plast.requested>>>>
           /\ action_checked[plast.prop] = plast.r
           /\ plast.via = "trigger" => pret = plast.r
           /\ plast.via = "trigger_action" => pret = <<plast.r>>

\* C17 witness: trigger(true) on a checked button whose callback returned
\* false has returned false and left the button unchecked.
C17_Witness ==
    /\ plast.op = "trigger" /\ plast.via = "trigger" /\ plast.prop = "Foo"
    /\ plast.requested = TRUE /\ plast.r = FALSE /\ pret = FALSE
    /\ action_checked["Foo"] = FALSE
    /\ stacks = [t \in Threads |-> <<>>] /\ dead = {}

\* C18: at no time are two invocations of the callback active, whichever
\* properties share it and whether trigger is called from inside the running
\* callback or from a second thread.
C18_CallbackExclusive == Cardinality(Running) <= 1

---------------------------------------------------------------------------
(* Properties of the single property.                                      *)

Median(a, b, c) == a + b + c - Min(a, Min(b, c)) - Max(a, Max(b, c))

StepOps == {"step_forward", "step_backward"}

\* the sum a step call computes from the value it read, as the machine
\* computes it when the call completes
MachineSum(p, op, before) ==
    LET sum == IF op = "step_forward" THEN before + p.step ELSE before - p.step
    IN  IF IsInteger(p) THEN IntWrap(sum) ELSE sum

\* C4 (as claimed): for every range, whichever bound is the smaller, and every
\* v, set_value(v) stores and returns median(range.0, v, range.1).
C4_ClampIsMedian ==
    (plast.op = "set_value")
        => /\ prop.value = Median(prop.range[1], plast.arg, prop.range[2])
           /\ pret = <<prop.value>>

\* C4 (amended): set_value(v) stores and returns median(range.0, v, range.1)
\* when range.0 <= range.1, and range.0 whatever v when range.0 > range.1.
C4_ClampLaw ==
    (plast.op = "set_value")
        => /\ pret = <<prop.value>>
           /\ prop.range[1] <= prop.range[2]
                => prop.value = Median(prop.range[1], plast.arg, prop.range[2])
           /\ prop.range[1] > prop.range[2] => prop.value = prop.range[1]

\* C4 witness: on a choice property with range (0, 2), set_value(5) yields 2.
C4_Witness ==
    /\ plast.op = "set_value" /\ plast.arg = 5
    /\ prop.widget_type = "ComboBox" /\ prop.range = <<0, 2>>
    /\ prop.value = 2 /\ pret = <<2>>

\* C5: with range.0 <= range.1, after any mutation through the public API
\* (set_value, step_forward, step_backward, a write through value_mut) the
\* value lies in [range.0, range.1].
C5_ValueInRange ==
    (/\ IsNumeric(prop) /\ ~panicked
     /\ plast.op \in {"set_value", "step_forward", "step_backward", "value_mut"}
     /\ prop.range[1] <= prop.range[2])
        => (prop.range[1] <= prop.value /\ prop.value <= prop.range[2])

C12_IntegerOpsNeverFail ==
    (IsInteger(prop) /\ plast.op \in StepOps \cup {"set_value"})
        => (~panicked /\ pret /= <<>>)

\* the choice widgets
ChoiceWidgets == {"ComboBox", "Select"}

\* C13: a property built by with_combo_box or with_select has, in every state
\* of its life, a non-empty options list, range == (0, options.len() - 1) and
\* step == 1; a construction that aborted has yielded no property.
C13_ChoiceInvariant ==
    /\ (prop.widget_type \in ChoiceWidgets)
          => /\ prop.options >= 1
             /\ prop.range = <<0, prop.options - 1>>
             /\ prop.step = 1
    /\ (plast.op = "construct" /\ panicked) => prop = NoProp

\* C13 witness: a Select over three options that has been stepped forward
\* from the last option still has range (0, 2) and step 1.
C13_Witness ==
    /\ prop.widget_type = "Select" /\ prop.struct = "PropertyI32"
    /\ prop.options = 3
    /\ plast.op = "step_forward" /\ plast.before = 2 /\ ~panicked
    /\ prop.range = <<0, 2>> /\ prop.step = 1 /\ prop.value = 2

\* C7: for every property built by a public constructor exactly one
\* as_property_* downcast returns Some: the one named by value_type().
C7_OneDowncast ==
    (prop /= NoProp) => Downcasts(prop) = {prop.value_type}

====
